---- MODULE Spec2Model ----
(***************************************************************************)
(* The payment gateway of CCCI-Member-Backend: an express server that      *)
(* forwards browser requests to one upstream API.  The repository holds    *)
(* two entry points, src/server.js (one route) and src/unnamed/part_000    *)
(* (the full route table); either may be the process that is started.      *)
(*                                                                         *)
(* Strings the code computes with (URL templates, identifiers) are         *)
(* sequences of one-character strings, so that String.prototype.replace    *)
(* is computed character by character.                                     *)
(***************************************************************************)
EXTENDS Integers, Sequences, FiniteSets, TLC

VARIABLES
    entry,          \* which file node runs: "server_js" or "part_000"
    expressMajor,   \* major version of the installed express (4 or 5)
    env,            \* process.env after dotenv.config()
    proc,           \* "starting", "listening" or "exited"
    exchanges       \* inbound requests being handled or just answered

vars == <<entry, expressMajor, env, proc, exchanges>>

\* ------------------------------------------------------------------ bounds

\* Inbound exchanges the model keeps at once (in flight or just answered).
MaxExchanges == 1

\* ----------------------------------------------------------------- strings

\* An unset environment variable (undefined) or the empty string:
\* both are falsy in JavaScript.
Absent == <<>>

Falsy(s) == s = Absent

PLACEHOLDER == <<"{", "i", "d", "}">>

SLASH_PLACEHOLDER == <<"/">> \o PLACEHOLDER

\* String.prototype.indexOf, 1-based, 0 when there is no occurrence.
RECURSIVE IndexFrom(_, _, _)
IndexFrom(s, pat, k) ==
    IF k + Len(pat) - 1 > Len(s) THEN 0
    ELSE IF SubSeq(s, k, k + Len(pat) - 1) = pat THEN k
    ELSE IndexFrom(s, pat, k + 1)

indexOf(s, pat) == IndexFrom(s, pat, 1)

includes(s, pat) == indexOf(s, pat) # 0

\* ECMAScript GetSubstitution for a string pattern (no capture groups):
\* in the replacement text "$$" is "$", "$&" the matched text, "$`" the
\* text before the match, "$'" the text after it; any other "$" is literal.
RECURSIVE GetSubstitution(_, _, _, _)
GetSubstitution(matched, before, after, r) ==
    IF r = <<>> THEN <<>>
    ELSE IF Head(r) = "$" /\ Len(r) >= 2 /\ r[2] \in {"$", "&", "`", "'"}
    THEN LET rest == SubSeq(r, 3, Len(r))
             sub  == CASE r[2] = "$" -> <<"$">>
                       [] r[2] = "&" -> matched
                       [] r[2] = "`" -> before
                       [] r[2] = "'" -> after
         IN  sub \o GetSubstitution(matched, before, after, rest)
    ELSE <<Head(r)>> \o GetSubstitution(matched, before, after, Tail(r))

\* String.prototype.replace(pat, r) with a string pattern: the first
\* occurrence only, the replacement expanded by GetSubstitution.
replace(s, pat, r) ==
    LET p == indexOf(s, pat) IN
    IF p = 0 THEN s
    ELSE LET before == SubSeq(s, 1, p - 1)
             after  == SubSeq(s, p + Len(pat), Len(s))
         IN  before \o GetSubstitution(pat, before, after, r) \o after

\* ------------------------------------------------------------ input values

\* Payment templates an operator may configure.
T_SEGMENT == <<"/", "p", "/", "{", "i", "d", "}", "/", "r">>   \* /p/{id}/r
T_QUERY   == <<"/", "p", "?", "{", "i", "d", "}">>             \* /p?{id}
T_PLAIN   == <<"/", "p">>                                      \* /p

Templates == {T_SEGMENT, T_QUERY, T_PLAIN}

U_SHOW == <<"/", "s">>

TOKEN == <<"t">>

\* Identifiers a caller may put in the :id path segment (never empty).
Ids == {<<"7">>, <<"$", "&">>, <<"$", "$">>}

Envs ==
    [API_URL     : {Absent, U_SHOW},
     API_PAYMENT : Templates \cup {Absent},
     API_PAYMET  : {Absent, T_SEGMENT},
     API_TOKEN   : {Absent, TOKEN}]

\* ------------------------------------------------------------ configuration

API_URL == env.API_URL

API_PAYMENT == IF ~Falsy(env.API_PAYMENT) THEN env.API_PAYMENT ELSE env.API_PAYMET

API_TOKEN == env.API_TOKEN


\* --------------------------------------------------------------- requests

Methods == {"GET", "POST", "PUT", "DELETE"}

\* The path up to an optional last segment, which is the field id.
Bases ==
    {"/health", "/api/show/data", "/api/show/data/payment", "/api/payment",
     "/api/test-connection", "/nope"}

\* Raw request bodies: none at all, an empty JSON object, a JSON object.
RawBodies == {"none", "{}", "{\"amount\":10}"}

\* Inbound requests: a last segment only under the two payment paths, a
\* body only on POST and PUT to /api/payment.
Requests ==
    {r \in [method : Methods, base : Bases, id : Ids \cup {Absent}, raw : RawBodies] :
        /\ r.id # Absent => r.base \in {"/api/show/data/payment", "/api/payment"}
        /\ r.raw # "none" => r.method \in {"POST", "PUT"} /\ r.base = "/api/payment"}

\* JSON.parse on the texts the model uses; anything else is a SyntaxError.
JSONparse(text) ==
    CASE text = "{\"amount\":10}" -> [ok |-> TRUE, value |-> "Object{amount:10}"]
      [] text = "{}"              -> [ok |-> TRUE, value |-> "Object{}"]
      [] OTHER                    -> [ok |-> FALSE, value |-> "Unexpected end of JSON input"]

JSONstringify(value) ==
    CASE value = "Object{amount:10}" -> "{\"amount\":10}"
      [] value = "Object{}"          -> "{}"
      [] OTHER                       -> "undefined"

\* express.json(): req.body for a request.  With no body to parse, express 4
\* (body-parser 1.x) leaves req.body = {} and express 5 (body-parser 2.x)
\* leaves it undefined.
expressJson(raw) ==
    IF raw = "none"
    THEN IF expressMajor = 4 THEN "Object{}" ELSE "undefined"
    ELSE JSONparse(raw).value

FalsyValue(v) == v = "undefined"

\* ----------------------------------------------------------------- routing

Route(m, b, p, h) == [method |-> m, base |-> b, param |-> p, handler |-> h]

Routes_part_000 ==
    {Route("GET", "/health", FALSE, "Health"),
     Route("GET", "/api/show/data", FALSE, "FetchCollection"),
     Route("GET", "/api/show/data/payment", TRUE, "FetchById"),
     Route("POST", "/api/payment", FALSE, "Create"),
     Route("PUT", "/api/payment", TRUE, "UpdateById"),
     Route("DELETE", "/api/payment", TRUE, "DeleteById"),
     Route("GET", "/api/test-connection", FALSE, "TestConnection")}

Routes_server_js == {Route("GET", "/api/show/data", FALSE, "FetchCollection")}

Routes == IF entry = "part_000" THEN Routes_part_000 ELSE Routes_server_js

\* A route with a :id parameter matches only a path that has that segment,
\* and a route without one only a path that ends at its base.
Matches(rt, req) ==
    /\ rt.method = req.method
    /\ rt.base = req.base
    /\ rt.param <=> (req.id # Absent)

Dispatch(req) ==
    IF \E rt \in Routes : Matches(rt, req)
    THEN (CHOOSE rt \in Routes : Matches(rt, req)).handler
    ELSE "NotFound"

Endpoint(m, b, p) == [method |-> m, base |-> b, param |-> p]

availableEndpoints ==
    <<Endpoint("GET", "/health", FALSE),
      Endpoint("GET", "/api/show/data", FALSE),
      Endpoint("GET", "/api/payment", TRUE),
      Endpoint("POST", "/api/payment", FALSE),
      Endpoint("PUT", "/api/payment", TRUE),
      Endpoint("DELETE", "/api/payment", TRUE),
      Endpoint("GET", "/api/test-connection", FALSE)>>

\* --------------------------------------------------------------- exchanges

NoCall == [method |-> "none", url |-> Absent, token |-> Absent, body |-> "none"]

NoUp == [kind |-> "none", status |-> 0, text |-> ""]

Pending == [status |-> 0, body |-> [pending |-> TRUE]]

Call(m, url, body) == [method |-> m, url |-> url, token |-> API_TOKEN, body |-> body]

\* res.status(s).json(body)
Json(s, body) == [status |-> s, body |-> body]

\* The handler answered without awaiting the upstream.
Respond(req, op, resp) ==
    [req |-> req, op |-> op, pc |-> "responded", out |-> NoCall, up |-> NoUp,
     resp |-> resp]

\* The catch block of a route handler.
Catch(op, message) ==
    IF entry = "server_js"
    THEN Json(500, [error |-> "Internal server error"])
    ELSE IF op = "TestConnection"
    THEN Json(500, [success |-> FALSE, error |-> message, url |-> API_URL])
    ELSE Json(500, [error |-> "Internal server error", message |-> message])

\* await fetch(url, ...): node-fetch rejects a URL that is not absolute
\* before anything is sent; otherwise the request goes out and the handler
\* is suspended.
Fetch(req, op, call) ==
    IF Falsy(call.url)
    THEN Respond(req, op, Catch(op, "Only absolute URLs are supported"))
    ELSE [req |-> req, op |-> op, pc |-> "awaitFetch", out |-> call, up |-> NoUp,
          resp |-> Pending]

\* API_PAYMENT.replace('{id}', id)
paymentUrl(id) == replace(API_PAYMENT, PLACEHOLDER, id)

\* API_PAYMENT.includes('{id}') ? API_PAYMENT.replace('/{id}', '') : API_PAYMENT
paymentEndpoint ==
    IF includes(API_PAYMENT, PLACEHOLDER)
    THEN replace(API_PAYMENT, SLASH_PLACEHOLDER, <<>>)
    ELSE API_PAYMENT

IdRequired == Json(400, [error |-> "Payment ID is required"])

DataRequired == Json(400, [error |-> "Payment data is required"])

SetOrMissing(v) == IF Falsy(v) THEN "Missing" ELSE "Set"

Health(req) ==
    Respond(req, "Health",
            Json(200, [status |-> "OK",
                       environment |->
                           [API_URL     |-> SetOrMissing(API_URL),
                            API_PAYMENT |-> SetOrMissing(API_PAYMENT),
                            API_TOKEN   |-> SetOrMissing(API_TOKEN)]]))

FetchCollection(req) ==
    Fetch(req, "FetchCollection", Call("GET", API_URL, "none"))

FetchById(req) ==
    IF Falsy(req.id) THEN Respond(req, "FetchById", IdRequired)
    ELSE Fetch(req, "FetchById", Call("GET", paymentUrl(req.id), "none"))

Create(req) ==
    LET paymentData == expressJson(req.raw) IN
    IF FalsyValue(paymentData) THEN Respond(req, "Create", DataRequired)
    ELSE Fetch(req, "Create", Call("POST", paymentEndpoint, JSONstringify(paymentData)))

UpdateById(req) ==
    LET paymentData == expressJson(req.raw) IN
    IF Falsy(req.id) THEN Respond(req, "UpdateById", IdRequired)
    ELSE IF FalsyValue(paymentData) THEN Respond(req, "UpdateById", DataRequired)
    ELSE Fetch(req, "UpdateById",
               Call("PUT", paymentUrl(req.id), JSONstringify(paymentData)))

DeleteById(req) ==
    IF Falsy(req.id) THEN Respond(req, "DeleteById", IdRequired)
    ELSE Fetch(req, "DeleteById", Call("DELETE", paymentUrl(req.id), "none"))

TestConnection(req) ==
    Fetch(req, "TestConnection", Call("GET", API_URL, "none"))

\* The handler app.use((req, res) => ...) of part_000 after all routes; in
\* server.js no such handler exists and express answers with its own page.
NotFound(req) ==
    IF entry = "part_000"
    THEN Respond(req, "NotFound",
                 Json(404, [error |-> "Route not found", base |-> req.base,
                            id |-> req.id, method |-> req.method,
                            availableEndpoints |-> availableEndpoints]))
    ELSE Respond(req, "NotFound", Json(404, [html |-> "Cannot", method |-> req.method, base |-> req.base]))

\* The synchronous part of handling one inbound request.
Handle(req) ==
    LET h == Dispatch(req) IN
    CASE h = "Health"          -> Health(req)
      [] h = "FetchCollection" -> FetchCollection(req)
      [] h = "FetchById"       -> FetchById(req)
      [] h = "Create"          -> Create(req)
      [] h = "UpdateById"      -> UpdateById(req)
      [] h = "DeleteById"      -> DeleteById(req)
      [] h = "TestConnection"  -> TestConnection(req)
      [] OTHER                 -> NotFound(req)


\* ------------------------------------------------------- upstream answers

UpStatuses == {200, 201, 404, 500}

\* Response bodies of the upstream: a JSON object, or nothing at all.
UpTexts == {"{\"amount\":10}", ""}

\* error.message of a failed fetch.
TransportErrors == {"ECONNREFUSED", "ETIMEDOUT"}

StatusText(s) ==
    CASE s = 200 -> "OK"
      [] s = 201 -> "Created"
      [] s = 404 -> "Not Found"
      [] OTHER   -> "Internal Server Error"

\* response.ok
Ok(s) == s >= 200 /\ s <= 299

FailedText(op) ==
    CASE op = "FetchCollection" -> "Failed to fetch external API"
      [] op = "FetchById"       -> "Failed to fetch payment data"
      [] op = "Create"          -> "Failed to create payment"
      [] op = "UpdateById"      -> "Failed to update payment"
      [] OTHER                  -> "Failed to delete payment"

\* if (!response.ok) return res.status(response.status).json({...})
NotOkResponse(op, s, text) ==
    IF entry = "server_js"
    THEN Json(s, [error |-> FailedText(op)])
    ELSE IF op \in {"FetchCollection", "FetchById"}
    THEN Json(s, [error |-> FailedText(op), status |-> s, statusText |-> StatusText(s)])
    ELSE Json(s, [error |-> FailedText(op), status |-> s, statusText |-> StatusText(s),
                  details |-> text])

\* const data = await response.json(); res.json(data)  (201 for Create);
\* a body that is not JSON makes response.json() throw into the catch block.
RelayResponse(op, s, text) ==
    LET data == JSONparse(text) IN
    IF ~data.ok THEN Catch(op, data.value)
    ELSE Json(IF op = "Create" THEN 201 ELSE 200, [data |-> data.value])

\* A delete handler that relays the upstream body as the other routes do.
DeletedResponse_relayed(id, s, text) == RelayResponse("DeleteById", s, text)

\* res.json({message: "Payment deleted successfully", id: id})
DeletedResponse(id, s, text) ==
    Json(200, [message |-> "Payment deleted successfully", id |-> id])

\* res.json({success: response.ok, status, statusText, url, timestamp})
TestResponse(s) ==
    Json(200, [success |-> Ok(s), status |-> s, statusText |-> StatusText(s),
               url |-> API_URL])

\* The rest of a handler once fetch has resolved with status s and body text.
OnResponse(e, s, text) ==
    CASE e.op = "TestConnection" -> TestResponse(s)
      [] e.op # "TestConnection" /\ ~Ok(s) -> NotOkResponse(e.op, s, text)
      [] e.op = "DeleteById" /\ Ok(s) -> DeletedResponse(e.req.id, s, text)
      [] OTHER -> RelayResponse(e.op, s, text)

\* ----------------------------------------------------------------- actions

\* Module load up to app.listen: part_000 validates the three values and
\* exits when one is falsy; server.js validates nothing.
Validated ==
    \/ entry = "server_js"
    \/ ~Falsy(API_URL) /\ ~Falsy(API_PAYMENT) /\ ~Falsy(API_TOKEN)

Startup ==
    /\ proc = "starting"
    /\ proc' = IF Validated THEN "listening" ELSE "exited"
    /\ UNCHANGED <<entry, expressMajor, env, exchanges>>

\* An inbound request arrives and its handler runs to its first await or
\* to its response.
Receive(req) ==
    /\ proc = "listening"
    /\ Cardinality(exchanges) < MaxExchanges
    /\ exchanges' = exchanges \cup {Handle(req)}
    /\ UNCHANGED <<entry, expressMajor, env, proc>>

\* The upstream answers an outbound call.
UpstreamResponds(e, s, text) ==
    /\ e \in exchanges
    /\ e.pc = "awaitFetch"
    /\ exchanges' = (exchanges \ {e}) \cup
           {[e EXCEPT !.pc = "responded",
                      !.up = [kind |-> "response", status |-> s, text |-> text],
                      !.resp = OnResponse(e, s, text)]}
    /\ UNCHANGED <<entry, expressMajor, env, proc>>

\* The outbound call fails before any response (DNS, refused, timeout).
TransportFails(e, message) ==
    /\ e \in exchanges
    /\ e.pc = "awaitFetch"
    /\ exchanges' = (exchanges \ {e}) \cup
           {[e EXCEPT !.pc = "responded",
                      !.up = [kind |-> "failure", status |-> 0, text |-> message],
                      !.resp = Catch(e.op, message)]}
    /\ UNCHANGED <<entry, expressMajor, env, proc>>

\* The response has been written and the exchange is over.
Finish(e) ==
    /\ e \in exchanges
    /\ e.pc = "responded"
    /\ exchanges' = exchanges \ {e}
    /\ UNCHANGED <<entry, expressMajor, env, proc>>

Init ==
    /\ entry \in {"server_js", "part_000"}
    /\ expressMajor \in {4, 5}
    /\ env \in Envs
    /\ proc = "starting"
    /\ exchanges = {}

Next ==
    \/ Startup
    \/ \E req \in Requests : Receive(req)
    \/ \E e \in exchanges, s \in UpStatuses, text \in UpTexts : UpstreamResponds(e, s, text)
    \/ \E e \in exchanges, m \in TransportErrors : TransportFails(e, m)
    \/ \E e \in exchanges : Finish(e)

Spec == Init /\ [][Next]_vars


\* ------------------------------------------------------------------ claims

Forwarding == {"FetchCollection", "FetchById", "Create", "UpdateById", "DeleteById"}

ById == {"FetchById", "UpdateById", "DeleteById"}

Called(e) == e.out # NoCall

Answered == {e \in exchanges : e.pc = "responded"}

Range(f) == {f[i] : i \in DOMAIN f}

\* The template with the first {id} replaced by exactly the characters of id.
LiteralReplace(t, id) ==
    LET p == indexOf(t, PLACEHOLDER) IN
    IF p = 0 THEN t
    ELSE SubSeq(t, 1, p - 1) \o id \o SubSeq(t, p + Len(PLACEHOLDER), Len(t))

\* The template without its first {id} and without the "/" right before it.
Stripped(t) ==
    LET p == indexOf(t, PLACEHOLDER)
        q == IF p > 1 /\ t[p - 1] = "/" THEN p - 1 ELSE p
    IN  IF p = 0 THEN t
        ELSE SubSeq(t, 1, q - 1) \o SubSeq(t, p + Len(PLACEHOLDER), Len(t))

\* C1: a POST /api/payment that carries no body is answered 400
\* {error: "Payment data is required"} and makes no outbound call.
C1_CreateWithoutBodyIs400 ==
    \A e \in exchanges :
        (e.op = "Create" /\ e.req.raw = "none")
            => /\ ~Called(e)
               /\ e.pc = "responded"
               /\ e.resp = Json(400, [error |-> "Payment data is required"])

\* C2: a request for FetchById, UpdateById or DeleteById without its id, or
\* for UpdateById without its payload, is answered 400 and makes no
\* outbound call.
C2_MissingIdOrPayloadIs400 ==
    \A e \in exchanges :
        LET noId == /\ e.req.id = Absent
                    /\ \/ e.req.method = "GET" /\ e.req.base = "/api/show/data/payment"
                       \/ e.req.method \in {"PUT", "DELETE"} /\ e.req.base = "/api/payment"
            noPayload == e.op = "UpdateById" /\ e.req.raw = "none"
        IN  (noId \/ noPayload)
                => /\ ~Called(e)
                   /\ e.pc = "responded"
                   /\ e.resp.status = 400

\* C3: on a forwarding route a non-2xx upstream status s is answered with
\* status s and a body that has an error field and a status field equal to s.
C3_UpstreamErrorRelayed ==
    \A e \in Answered :
        (e.op \in Forwarding /\ e.up.kind = "response" /\ ~Ok(e.up.status))
            => /\ e.resp.status = e.up.status
               /\ "error" \in DOMAIN e.resp.body
               /\ "status" \in DOMAIN e.resp.body
               /\ e.resp.body.status = e.up.status

\* C4: on a forwarding route a 2xx upstream status s is answered with the
\* upstream's status (201 for Create), never with an error status, and, on
\* every route but the delete route, with the upstream's parsed JSON body.
C4_UpstreamSuccessRelayed ==
    \A e \in Answered :
        (e.op \in Forwarding /\ e.up.kind = "response" /\ Ok(e.up.status))
            => /\ e.resp.status = IF e.op = "Create" THEN 201 ELSE e.up.status
               /\ Ok(e.resp.status)
               /\ e.op # "DeleteById"
                    => e.resp.body = [data |-> JSONparse(e.up.text).value]

\* C5: on a forwarding route a transport failure is answered 500 with a
\* message field that carries the error's message, and the process keeps
\* listening.
C5_TransportFailureIs500WithMessage ==
    \A e \in Answered :
        (e.op \in Forwarding /\ e.up.kind = "failure")
            => /\ e.resp.status = 500
               /\ "message" \in DOMAIN e.resp.body
               /\ e.resp.body.message = e.up.text
               /\ proc = "listening"

\* C6: FetchById, UpdateById and DeleteById call the payment template with
\* its first {id} replaced by exactly the characters of the identifier.
C6_IdSubstitutedLiterally ==
    \A e \in exchanges :
        (e.op \in ById /\ Called(e))
            => e.out.url = LiteralReplace(API_PAYMENT, e.req.id)

\* C7: the URL Create calls holds no {id}: it is the template without the
\* placeholder and the separator before it, or the template itself when
\* the template holds no placeholder.
C7_CreateUrlHasNoPlaceholder ==
    \A e \in exchanges :
        (e.op = "Create" /\ Called(e))
            => /\ ~includes(e.out.url, PLACEHOLDER)
               /\ e.out.url = Stripped(API_PAYMENT)

\* C8: a process that lacks API_URL, API_PAYMENT (or its alias) or
\* API_TOKEN never listens, never serves a request and never calls the
\* upstream.
C8_MissingConfigNeverServes ==
    (Falsy(API_URL) \/ Falsy(API_PAYMENT) \/ Falsy(API_TOKEN))
        => proc # "listening" /\ exchanges = {}

\* C9: DeleteById(i) on an upstream success answers 200 with exactly
\* {message: "Payment deleted successfully", id: i}, whatever the
\* upstream's status and body were.
C9_DeleteAcknowledged ==
    \A e \in Answered :
        (e.op = "DeleteById" /\ e.up.kind = "response" /\ Ok(e.up.status))
            => e.resp = [status |-> 200,
                         body |-> [message |-> "Payment deleted successfully",
                                   id |-> e.req.id]]

\* A delete of an identifier with "$" in it was answered after the upstream
\* had sent 201 with a JSON body of its own.
C9_DeleteSucceeded ==
    \E e \in Answered :
        /\ e.op = "DeleteById"
        /\ e.req.id = <<"$", "&">>
        /\ e.up = [kind |-> "response", status |-> 201, text |-> "{\"amount\":10}"]

\* C10: in part_000 a request no route matches is answered 404 with an
\* availableEndpoints list that is exactly the set of registered routes.
C10_AvailableEndpointsAreTheRoutes ==
    \A e \in Answered :
        (entry = "part_000" /\ e.op = "NotFound")
            => /\ e.resp.status = 404
               /\ "availableEndpoints" \in DOMAIN e.resp.body
               /\ Range(e.resp.body.availableEndpoints)
                    = {Endpoint(rt.method, rt.base, rt.param) : rt \in Routes}

====
